---- MODULE Spec2Model ----
(***************************************************************************)
(* SRP-6a login service of fsteff/secure-storage:                          *)
(*   src/backend/thinbus-srp-server.js   register / challenge / auth,      *)
(*                                       the lazily loaded user "DB"       *)
(*   src/frontend/thinbus-srp-client.js  the client side of the handshake  *)
(*                                                                         *)
(* Node runs the handlers on one event loop: a handler runs without        *)
(* interruption up to an await on real I/O (fsp.readFile, fsp.writeFile),  *)
(* and other requests run while that I/O is in flight.  Every action below *)
(* is one such uninterrupted run, or the I/O itself being performed.       *)
(*                                                                         *)
(* The group is scaled down (N = 11, g = 2) and the hash H is modelled as  *)
(* the injective tupling of its arguments; the SRP arithmetic is computed  *)
(* as the thinbus library computes it, on both sides.                      *)
(***************************************************************************)
EXTENDS Integers, FiniteSets, Sequences, TLC

VARIABLES
    users,      \* the module-level cache `users`: {} is null, {m} is the object m
    disk,       \* the file at STORAGE_PATH
    session,    \* express session store: session[s] is req.session of session s
    req,        \* the request handlers in flight, one per slot
    out,        \* the step just taken: the response just sent, or NoEvent
    acked,      \* history: the registrations acknowledged with 204
    stored,     \* history: usernames that ever had a record (snapshot or saveUser)
    pairs,      \* history: pairs of acknowledged registrations that overlapped
    hist,       \* history per session: challenges made, last verification
    count       \* requests received so far

vars == <<users, disk, session, req, out, acked, stored, pairs, hist, count>>

----------------------------------------------------------------------------
(* Bounds *)

NumSlots == 2          \* requests handled concurrently
NumSessions == 2       \* browser sessions
NumSalts == 1          \* salts a client may generate
NumPasswords == 2      \* passwords
NumB == 1              \* values of the server's random b
NumA == 1              \* values of the client's random a
MaxRequests == 4       \* requests received in a run

Slots == 1..NumSlots
Sessions == 1..NumSessions
Salts == 1..NumSalts
Passwords == 1..NumPasswords
RandB == 1..NumB
RandA == 1..NumA

\* Usernames: two ordinary ones and one that names a property every
\* JavaScript object inherits from Object.prototype.
OrdinaryNames == {"alice", "bob"}
ProtoNames == {"toString"}
Names == OrdinaryNames \cup ProtoNames
\* A missing request field is the empty string (falsy in JavaScript).
Missing == ""

\* Usernames a user of ThinbusSRPClient may choose: one that URI-component
\* encoding leaves as it is, and one that it changes.
LoginNames == {"alice", "a@b"}

\* encodeURIComponent on the usernames above: "@" becomes "%40", letters stay.
EncodeURIComponent(u) == CASE u = "a@b" -> "a%40b" [] OTHER -> u
\* The query-string parser behind req.query decodes percent escapes.
DecodeURIComponent(q) == CASE q = "a%40b" -> "a@b" [] OTHER -> q

----------------------------------------------------------------------------
(* SRP-6a arithmetic, as thinbus-srp computes it, in a small group *)

N == 11                \* rfc5054.N_base10, scaled down
G == 2                 \* rfc5054.g_base10
K == 3                 \* rfc5054.k_base16, scaled down

RECURSIVE ModExp(_, _, _)
ModExp(b, e, n) == IF e = 0 THEN 1 % n ELSE (b * ModExp(b, e - 1, n)) % n

UserNum(u) ==
    CASE u = "alice" -> 1 [] u = "bob" -> 2 [] u = "toString" -> 3
      [] u = "a@b" -> 5 [] u = "a%40b" -> 6 [] OTHER -> 4

\* x = H(salt | H(identity ":" password)), the client's private key
PrivateKey(salt, ident, pw) == 1 + ((3 * salt + UserNum(ident) + 5 * pw) % (N - 1))

\* client.generateVerifier(salt, username, password): v = g^x mod N
GenerateVerifier(salt, ident, pw) == ModExp(G, PrivateKey(salt, ident, pw), N)

\* u = H(A | B), never zero
ScrambleU(A, B) == 1 + ((A + 2 * B) % 3)

\* server.step1: B = k*v + g^b mod N
ServerB(v, b) == (K * v + ModExp(G, b, N)) % N

\* server.step2: S = (A * v^u)^b mod N
ServerS(v, b, A) ==
    LET B == ServerB(v, b)
        u == ScrambleU(A, B)
    IN  ModExp((A * ModExp(v, u, N)) % N, b, N)

\* M1 = H(A | B | S) and M2 = H(A | M1 | S)
HashM1(A, B, S) == <<"M1", A, B, S>>
HashM2(A, M1, S) == <<"M2", A, M1, S>>

\* client.step2(salt, B) after client.step1(identity, password):
\* A = g^a, S = (B - k*g^x)^(a + u*x) mod N
ClientA(a) == ModExp(G, a, N)
ClientS(salt, B, ident, pw, a) ==
    LET x == PrivateKey(salt, ident, pw)
        A == ClientA(a)
        u == ScrambleU(A, B)
        base == (((B - K * ModExp(G, x, N)) % N) + N) % N
    IN  ModExp(base, a + u * x, N)
ClientM1(salt, B, ident, pw, a) ==
    HashM1(ClientA(a), B, ClientS(salt, B, ident, pw, a))
\* client.step3(M2) compares M2 with H(A | M1 | S)
ClientM2(salt, B, ident, pw, a) ==
    HashM2(ClientA(a), ClientM1(salt, B, ident, pw, a), ClientS(salt, B, ident, pw, a))
ClientStep3(salt, B, ident, pw, a, M2) == M2 = ClientM2(salt, B, ident, pw, a)

----------------------------------------------------------------------------
(* Values *)

EmptyMap == [n \in {} |-> [salt |-> 0, verifier |-> 0]]
Record(salt, verifier) == [salt |-> salt, verifier |-> verifier]

\* users[username] on a plain JavaScript object m: an own property, else a
\* property inherited from Object.prototype (a function, truthy, with no
\* salt and no verifier), else undefined.
GetProp(m, username) ==
    IF username \in DOMAIN m
    THEN [kind |-> "record", salt |-> m[username].salt, verifier |-> m[username].verifier]
    ELSE IF username \in ProtoNames
         THEN [kind |-> "inherited", salt |-> 0, verifier |-> 0]
         ELSE [kind |-> "undefined", salt |-> 0, verifier |-> 0]
NullUser == [kind |-> "undefined", salt |-> 0, verifier |-> 0]
Truthy(user) == user.kind # "undefined"

\* users[username] = {salt, verifier}
SetProp(m, username, rec) ==
    [n \in DOMAIN m \cup {username} |-> IF n = username THEN rec ELSE m[n]]

Loaded == users # {}
Cache == CHOOSE m \in users : TRUE

NoSession == [serverSession |-> {}, loggedIn |-> "undefined"]
NoHist == [challenged |-> FALSE, consumed |-> FALSE, failed |-> FALSE, lastVerify |-> "none",
           lastChal |-> [user |-> Missing, salt |-> 0, B |-> 0],
           prevChal |-> [user |-> Missing, salt |-> 0, B |-> 0]]

IdleReq == [pc |-> "idle", op |-> "none", sid |-> 0, user |-> Missing,
            salt |-> 0, verifier |-> 0, data |-> EmptyMap, after |-> FALSE, ov |-> {}]

NoEvent == [op |-> "none", sid |-> 0, user |-> Missing, status |-> 0,
            salt |-> 0, verifier |-> 0, B |-> 0, A |-> 0, M1 |-> <<>>, M2 |-> <<>>,
            step2 |-> FALSE, after |-> FALSE]
Response(op, sid, user, status) ==
    [NoEvent EXCEPT !.op = op, !.sid = sid, !.user = user, !.status = status]

\* What a freshly started process may find at STORAGE_PATH: no file or one
\* that does not parse (readFile or JSON.parse throws), or the snapshot an
\* earlier run left.
InitDisks ==
    { [state |-> "unreadable", map |-> EmptyMap],
      [state |-> "ok", map |-> SetProp(EmptyMap, "bob", Record(1, GenerateVerifier(1, "bob", 1)))] }

Init ==
    /\ users = {}
    /\ disk \in InitDisks
    /\ session = [s \in Sessions |-> NoSession]
    /\ req = [i \in Slots |-> IdleReq]
    /\ out = NoEvent
    /\ acked = {}
    /\ stored = DOMAIN disk.map
    /\ pairs = {}
    /\ hist = [s \in Sessions |-> NoHist]
    /\ count = 0

----------------------------------------------------------------------------
(* getUser / saveUser *)

\* fsp.readFile is performed: the content the callback will see is fixed now.
ReadPerform(i) ==
    /\ req[i].pc = "reading"
    /\ req' = [req EXCEPT ![i].pc = IF disk.state = "ok" THEN "readDone" ELSE "readFailed",
                          ![i].data = disk.map]
    /\ out' = NoEvent
    /\ UNCHANGED <<users, disk, session, acked, stored, pairs, hist, count>>

\* getUser after the await: users = JSON.parse(file), or users = {} in the
\* catch branch.  The object now in `users`.
LoadedMap(i) == IF req[i].pc = "readDone" THEN req[i].data ELSE EmptyMap
\* Mutant: the catch branch returns users[username] as the try branch does.
LoadedUserFromMap(i) == GetProp(LoadedMap(i), req[i].user)

\* getUser's return value after the await.
LoadedUser(i) ==
    IF req[i].pc = "readDone" THEN GetProp(req[i].data, req[i].user) ELSE NullUser

\* fsp.writeFile is performed: the whole file is replaced by the string
\* that JSON.stringify(users) produced when saveUser was called.
WritePerform(i) ==
    /\ req[i].pc = "writing"
    /\ disk' = [state |-> "ok", map |-> req[i].data]
    /\ req' = [req EXCEPT ![i].pc = "written"]
    /\ out' = NoEvent
    /\ UNCHANGED <<users, session, acked, stored, pairs, hist, count>>

\* Mutant: the rejection of writeFile is caught by nobody, the handler ends
\* without a response.
WriteFailUncaught(i) ==
    /\ req[i].pc = "writing"
    /\ req' = [req EXCEPT ![i] = IdleReq]
    /\ out' = NoEvent
    /\ UNCHANGED <<users, disk, session, acked, stored, pairs, hist, count>>

\* fsp.writeFile fails (disk full, no permission): the promise rejects.
WriteFail(i) ==
    /\ req[i].pc = "writing"
    /\ req' = [req EXCEPT ![i].pc = "writeFailed"]
    /\ out' = NoEvent
    /\ UNCHANGED <<users, disk, session, acked, stored, pairs, hist, count>>

----------------------------------------------------------------------------
(* register *)

\* The fields of a request body are "all" present, or one is missing
\* ("noSalt", "noVerifier", "noA", "noM1").

\* Mutant: only the method is validated.
BadRequestMethodOnly(method, expected, username, fields) == method # expected

\* The first check of every handler: the method is not the expected one, or
\* the username or another required field is missing (falsy).
BadRequest(method, expected, username, fields) ==
    method # expected \/ username = Missing \/ fields # "all"

Busy(i) == req[i].pc # "idle"
\* A new request takes the first free slot (the slots are interchangeable).
FreeSlot(i) == ~Busy(i) /\ \A j \in Slots : j < i => Busy(j)
AckedFor(username) == \E a \in acked : a.user = username

\* register after `await getUser(user)` returned `user`, with the object m in
\* `users`: 403, or saveUser up to the call of fsp.writeFile.
RegisterBody(i, r, m, user) ==
    /\ IF Truthy(user)
       THEN /\ users' = {m}
            /\ req' = [req EXCEPT ![i] = IdleReq]
            /\ out' = [Response("register", 0, r.user, 403) EXCEPT
                         !.salt = r.salt, !.verifier = r.verifier, !.after = r.after]
            /\ stored' = stored
       ELSE LET m2 == SetProp(m, r.user, Record(r.salt, r.verifier))
            IN  /\ users' = {m2}
                /\ req' = [req EXCEPT ![i] = [r EXCEPT !.pc = "writing", !.data = m2]]
                /\ out' = NoEvent
                /\ stored' = stored \cup {r.user}
    /\ UNCHANGED <<disk, session, acked, pairs, hist>>

\* register from its first line to its first await on I/O.
RegisterStart(i, method, user, fields, salt, pw) ==
    LET verifier == GenerateVerifier(salt, user, pw)
        r == [IdleReq EXCEPT !.op = "register", !.user = user, !.salt = salt,
                             !.verifier = verifier, !.after = AckedFor(user)]
    IN  /\ FreeSlot(i)
        /\ count < MaxRequests
        /\ count' = count + 1
        /\ IF BadRequest(method, "POST", user, fields)
           THEN /\ out' = Response("register", 0, user, 400)
                /\ UNCHANGED <<users, disk, session, req, acked, stored, pairs, hist>>
           ELSE IF Loaded
                THEN RegisterBody(i, r, Cache, GetProp(Cache, user))
                ELSE /\ req' = [req EXCEPT ![i] = [r EXCEPT !.pc = "reading"]]
                     /\ out' = NoEvent
                     /\ UNCHANGED <<users, disk, session, acked, stored, pairs, hist>>

\* getUser's readFile came back: the rest of getUser, then of register.
RegisterResume(i) ==
    /\ req[i].op = "register"
    /\ req[i].pc \in {"readDone", "readFailed"}
    /\ RegisterBody(i, req[i], LoadedMap(i), LoadedUser(i))
    /\ UNCHANGED count

\* Mutant: register answers without awaiting saveUser's promise.
AckWithoutAwait(i) == req[i].pc \in {"writing", "written"}

\* When register answers 204: only once the write it awaits has completed.
AckReady(i) == req[i].pc = "written"

\* `await saveUser(...)` came back: 204, or the rejection goes to onError.
RegisterFinish(i) ==
    /\ req[i].op = "register"
    /\ AckReady(i) \/ req[i].pc = "writeFailed"
    /\ LET r == req[i]
       IN  IF r.pc # "writeFailed"
           THEN /\ out' = [Response("register", 0, r.user, 204) EXCEPT
                             !.salt = r.salt, !.verifier = r.verifier, !.after = r.after]
                /\ acked' = acked \cup {[user |-> r.user, salt |-> r.salt, verifier |-> r.verifier]}
                /\ pairs' = pairs \cup {{r.user, w} : w \in r.ov \ {r.user}}
                /\ req' = [j \in Slots |->
                             IF j = i THEN IdleReq
                             ELSE IF req[j].op = "register"
                                  THEN [req[j] EXCEPT !.ov = @ \cup {r.user}]
                                  ELSE req[j]]
           ELSE /\ out' = [Response("register", 0, r.user, 500) EXCEPT
                             !.salt = r.salt, !.verifier = r.verifier, !.after = r.after]
                /\ req' = [req EXCEPT ![i] = IdleReq]
                /\ UNCHANGED <<acked, pairs>>
    /\ UNCHANGED <<users, disk, session, stored, hist, count>>

----------------------------------------------------------------------------
(* challenge *)

\* server.step1(username, salt, verifier) throws when salt or verifier is
\* undefined (thinbus checks its arguments).
Step1Throws(user) == user.kind = "inherited"

\* server.toPrivateStoreState() after step1
PrivateStoreState(username, user, b) ==
    [I |-> username, v |-> user.verifier, s |-> user.salt, b |-> b]

\* Mutant: challenge also marks the session as logged in.
StoreChallengeAndLogIn(sess, state) ==
    [sess EXCEPT !.serverSession = {state}, !.loggedIn = "true"]

\* Mutant: a pending state is not overwritten by a later challenge.
StoreChallengeKeepFirst(sess, state) ==
    IF sess.serverSession = {} THEN [sess EXCEPT !.serverSession = {state}] ELSE sess

\* Mutant: a new challenge resets the login.
StoreChallengeLogOut(sess, state) ==
    [sess EXCEPT !.serverSession = {state}, !.loggedIn = "undefined"]

\* req.session.serverSession = server.toPrivateStoreState()
StoreChallenge(sess, state) == [sess EXCEPT !.serverSession = {state}]

\* challenge after `await getUser(username)` returned `user`.
ChallengeBody(s, username, user, after) ==
    IF ~Truthy(user)
    THEN /\ out' = [Response("challenge", s, username, 404) EXCEPT !.after = after]
         /\ UNCHANGED <<session, hist>>
    ELSE IF Step1Throws(user)
         THEN /\ out' = [Response("challenge", s, username, 500) EXCEPT !.after = after]
              /\ UNCHANGED <<session, hist>>
         ELSE \E b \in RandB :
                LET B == ServerB(user.verifier, b)
                IN  /\ session' = [session EXCEPT ![s] =
                                      StoreChallenge(@, PrivateStoreState(username, user, b))]
                    /\ hist' = [hist EXCEPT ![s].challenged = TRUE,
                                            ![s].consumed = FALSE,
                                            ![s].failed = FALSE,
                                            ![s].lastChal = [user |-> username,
                                                             salt |-> user.salt, B |-> B],
                                            ![s].prevChal = hist[s].lastChal]
                    /\ out' = [Response("challenge", s, username, 200) EXCEPT
                                 !.salt = user.salt, !.B = B, !.after = after]

ChallengeStart(i, s, method, username) ==
    /\ FreeSlot(i)
    /\ count < MaxRequests
    /\ count' = count + 1
    /\ IF BadRequest(method, "GET", username, "all")
       THEN /\ out' = Response("challenge", s, username, 400)
            /\ UNCHANGED <<users, disk, session, req, acked, stored, pairs, hist>>
       ELSE IF Loaded
            THEN /\ ChallengeBody(s, username, GetProp(Cache, username), AckedFor(username))
                 /\ UNCHANGED <<users, disk, req, acked, stored, pairs>>
            ELSE /\ req' = [req EXCEPT ![i] = [IdleReq EXCEPT !.pc = "reading",
                                !.op = "challenge", !.sid = s, !.user = username,
                                !.after = AckedFor(username)]]
                 /\ out' = NoEvent
                 /\ UNCHANGED <<users, disk, session, acked, stored, pairs, hist>>

\* getUser's readFile came back: the rest of getUser, then of challenge.
ChallengeResume(i) ==
    /\ req[i].op = "challenge"
    /\ req[i].pc \in {"readDone", "readFailed"}
    /\ users' = {LoadedMap(i)}
    /\ req' = [req EXCEPT ![i] = IdleReq]
    /\ ChallengeBody(req[i].sid, req[i].user, LoadedUser(i), req[i].after)
    /\ UNCHANGED <<disk, acked, stored, pairs, count>>

----------------------------------------------------------------------------
(* auth *)

\* Mutant: the check for a pending challenge is left out.
PendingChallengeUnchecked(sess) == TRUE

\* Mutant: a challenge pending in any session counts.
PendingChallengeAnySession(sess) == \E t \in Sessions : session[t].serverSession # {}

\* `req.session.serverSession` is truthy
PendingChallenge(sess) == sess.serverSession # {}

\* `delete obj[name]` on a session object, whose properties are
\* serverSession and loggedIn: deleting a property it lacks changes nothing.
DeleteProp(sess, name) ==
    CASE name = "serverSession" -> [sess EXCEPT !.serverSession = {}]
      [] name = "loggedIn" -> [sess EXCEPT !.loggedIn = "undefined"]
      [] OTHER -> sess

\* Mutant: step2 returns M2 without comparing M1 with its own proof.
Step2NoProofCheck(st, A, M1) ==
    IF A % N = 0
    THEN [ok |-> FALSE, M2 |-> <<>>]
    ELSE [ok |-> TRUE, M2 |-> HashM2(A, M1, ServerS(st.v, st.b, A))]

\* server.fromPrivateStoreState(state); server.step2(A, M1): throws on
\* A mod N = 0 and on an M1 other than H(A | B | S), else returns M2.
Step2(st, A, M1) ==
    LET B == ServerB(st.v, st.b)
        S == ServerS(st.v, st.b, A)
    IN  IF A % N = 0 \/ M1 # HashM1(A, B, S)
        THEN [ok |-> FALSE, M2 |-> <<>>]
        ELSE [ok |-> TRUE, M2 |-> HashM2(A, M1, S)]

\* Mutant: the catch branch sets loggedIn as the try branch does.
LoggedInAlways(verified) == "true"

\* req.session.loggedIn after the try (verified) or the catch (thrown)
LoggedInAfter(verified) == IF verified THEN "true" ELSE "false"

\* Mutant: the catch branch also discards the pending state.
AuthFailedDiscard(sess) == [sess EXCEPT !.loggedIn = "false", !.serverSession = {}]

\* The catch branch of auth: req.session.loggedIn = false, nothing else.
AuthFailed(sess) == [sess EXCEPT !.loggedIn = LoggedInAfter(FALSE)]

\* History: whether M1 is the proof of the client's A against the challenge
\* state st (what SRP-6a asks the server to verify).
ProofMatches(st, A, M1) ==
    A % N # 0 /\ M1 = HashM1(A, ServerB(st.v, st.b), ServerS(st.v, st.b, A))

\* What the client sends as A and M1: computed by client.step2 from the last
\* challenge response received in the session (forged values where there is
\* none), or with one of them tampered.
\* tamper: "none", or "M1" (another M1 is sent), or "A" (A = 0 is sent), or
\* "stale" (computed from the challenge response before the last one).
ClientSalt(s) == IF hist[s].lastChal.user = Missing THEN 1 ELSE hist[s].lastChal.salt
ClientB(s) == IF hist[s].lastChal.user = Missing THEN 1 ELSE hist[s].lastChal.B
\* login passes encodeURIComponent(username) to client.step1.
ClientIdent(s, username) ==
    EncodeURIComponent(IF hist[s].lastChal.user = Missing THEN username
                       ELSE hist[s].lastChal.user)
SentA(a, tamper) == IF tamper = "A" THEN 0 ELSE ClientA(a)
SentM1(s, username, pw, a, tamper) ==
    IF tamper = "stale" /\ hist[s].prevChal.user # Missing
    THEN LET c == hist[s].prevChal
         IN  ClientM1(c.salt, c.B, EncodeURIComponent(c.user), pw, a)
    ELSE LET S == ClientS(ClientSalt(s), ClientB(s), ClientIdent(s, username), pw, a)
         IN  HashM1(ClientA(a), ClientB(s), IF tamper = "M1" THEN (S + 1) % N ELSE S)

\* auth has no await on I/O: the whole handler is one step.
Auth(s, method, username, fields, pw, a, tamper) ==
    LET A == SentA(a, tamper)
        M1 == SentM1(s, username, pw, a, tamper)
        sess == session[s]
    IN  /\ count < MaxRequests
        /\ count' = count + 1
        /\ IF BadRequest(method, "POST", username, fields)
           THEN /\ out' = Response("auth", s, username, 400)
                /\ UNCHANGED <<session, hist>>
           ELSE IF ~PendingChallenge(sess)
                THEN /\ out' = [Response("auth", s, username, 403) EXCEPT !.A = A, !.M1 = M1]
                     /\ UNCHANGED <<session, hist>>
                ELSE IF sess.serverSession = {}
                     \* fromPrivateStoreState(undefined) throws outside the try
                     THEN /\ out' = [Response("auth", s, username, 500) EXCEPT !.A = A, !.M1 = M1]
                          /\ UNCHANGED <<session, hist>>
                     ELSE LET st == CHOOSE x \in sess.serverSession : TRUE
                              r == Step2(st, A, M1)
                              verdict == IF ProofMatches(st, A, M1) THEN "pass" ELSE "fail"
                          IN  IF r.ok
                              THEN /\ session' = [session EXCEPT ![s] =
                                        DeleteProp([sess EXCEPT !.loggedIn = LoggedInAfter(TRUE)],
                                                   "server")]
                                   /\ hist' = [hist EXCEPT ![s].lastVerify = verdict,
                                                           ![s].consumed = TRUE]
                                   /\ out' = [Response("auth", s, username, 200) EXCEPT
                                                !.A = A, !.M1 = M1, !.M2 = r.M2, !.step2 = TRUE]
                              ELSE /\ session' = [session EXCEPT ![s] = AuthFailed(sess)]
                                   /\ hist' = [hist EXCEPT ![s].lastVerify = verdict,
                                                           ![s].failed = TRUE]
                                   /\ out' = [Response("auth", s, username, 401) EXCEPT
                                                !.A = A, !.M1 = M1, !.step2 = TRUE]
        /\ UNCHANGED <<users, disk, req, acked, stored, pairs>>

----------------------------------------------------------------------------
(* The service *)

\* Requests as they arrive: well-formed ones, and one malformed request for
\* each reason the handler gives for a 400.
RegisterRequests ==
    { [method |-> "POST", user |-> "alice", fields |-> "all", pw |-> 1],
      [method |-> "POST", user |-> "alice", fields |-> "all", pw |-> NumPasswords],
      [method |-> "POST", user |-> "bob", fields |-> "all", pw |-> 1],
      [method |-> "POST", user |-> "toString", fields |-> "all", pw |-> 1],
      [method |-> "GET", user |-> "alice", fields |-> "all", pw |-> 1],
      [method |-> "POST", user |-> Missing, fields |-> "all", pw |-> 1],
      [method |-> "POST", user |-> "alice", fields |-> "noSalt", pw |-> 1],
      [method |-> "POST", user |-> "alice", fields |-> "noVerifier", pw |-> 1] }
\* Session 1 sends every kind of request; the other sessions log bob in.
ChallengeRequests ==
    [sid : {1}, method : {"GET"}, user : Names]
    \cup [sid : Sessions, method : {"GET"}, user : {"bob"}]
    \cup { [sid |-> 1, method |-> "POST", user |-> "alice"],
           [sid |-> 1, method |-> "GET", user |-> Missing] }
AuthRequests ==
    [sid : {1}, method : {"POST"}, user : {"alice"}, fields : {"all"},
     pw : Passwords, tamper : {"none"}]
    \cup [sid : {1}, method : {"POST"}, user : {"alice"}, fields : {"all"},
          pw : {1}, tamper : {"M1", "A", "stale"}]
    \cup [sid : Sessions, method : {"POST"}, user : {"bob"}, fields : {"all"},
          pw : {1}, tamper : {"none"}]
    \cup { [sid |-> 1, method |-> "GET", user |-> "alice", fields |-> "all", pw |-> 1, tamper |-> "none"],
           [sid |-> 1, method |-> "POST", user |-> Missing, fields |-> "all", pw |-> 1, tamper |-> "none"],
           [sid |-> 1, method |-> "POST", user |-> "alice", fields |-> "noA", pw |-> 1, tamper |-> "none"],
           [sid |-> 1, method |-> "POST", user |-> "alice", fields |-> "noM1", pw |-> 1, tamper |-> "none"] }

Next ==
    \/ \E i \in Slots, q \in RegisterRequests, salt \in Salts :
          RegisterStart(i, q.method, q.user, q.fields, salt, q.pw)
    \/ \E i \in Slots : RegisterResume(i)
    \/ \E i \in Slots : RegisterFinish(i)
    \/ \E i \in Slots, q \in ChallengeRequests :
          ChallengeStart(i, q.sid, q.method, q.user)
    \/ \E i \in Slots : ChallengeResume(i)
    \/ \E q \in AuthRequests, a \in RandA :
          Auth(q.sid, q.method, q.user, q.fields, q.pw, a, q.tamper)
    \/ \E i \in Slots : ReadPerform(i)
    \/ \E i \in Slots : WritePerform(i)
    \/ \E i \in Slots : WriteFail(i)

Spec == Init /\ [][Next]_vars

\* What a request in flight waits for always comes: the operating system
\* completes the read or the write, and the event loop then runs the
\* continuation of the handler that awaits it.
Progress(i) ==
    \/ ReadPerform(i) \/ WritePerform(i) \/ WriteFail(i)
    \/ RegisterResume(i) \/ RegisterFinish(i) \/ ChallengeResume(i)

\* The service started on the snapshot an earlier run left.
InitWithSnapshot == Init /\ disk.state = "ok"

FairSpec ==
    InitWithSnapshot /\ [][Next]_vars /\ \A i \in Slots : WF_vars(Progress(i))

----------------------------------------------------------------------------
(* One ThinbusSRPClient against the service: its calls come one at a time *)

Quiescent == \A i \in Slots : ~Busy(i)

\* ThinbusSRPClient.register(username, password)
ClientRegister(i, username, pw, salt) ==
    /\ Quiescent
    /\ RegisterStart(i, "POST", username, "all", salt, pw)

\* login, up to the fetch of challenge?user=<encoded username>
ClientChallenge(i, username) ==
    /\ Quiescent
    /\ ChallengeStart(i, 1, "GET", DecodeURIComponent(EncodeURIComponent(username)))

\* login, from the challenge response to the answer of authenticate
ClientAuthenticate(username, pw, a) ==
    /\ out.op = "challenge" /\ out.status = 200 /\ out.user = username
    /\ Auth(1, "POST", EncodeURIComponent(username), "all", pw, a, "none")

LoginNext ==
    \/ \E i \in Slots, u \in LoginNames, pw \in Passwords, salt \in Salts :
          ClientRegister(i, u, pw, salt)
    \/ \E i \in Slots, u \in LoginNames : ClientChallenge(i, u)
    \/ \E u \in LoginNames, pw \in Passwords, a \in RandA : ClientAuthenticate(u, pw, a)
    \/ \E i \in Slots : RegisterResume(i)
    \/ \E i \in Slots : RegisterFinish(i)
    \/ \E i \in Slots : ChallengeResume(i)
    \/ \E i \in Slots : ReadPerform(i)
    \/ \E i \in Slots : WritePerform(i)
    \/ \E i \in Slots : WriteFail(i)

SpecLogin == Init /\ [][LoginNext]_vars

----------------------------------------------------------------------------
(* Properties *)

AckedRecord(a) == [kind |-> "record", salt |-> a.salt, verifier |-> a.verifier]

\* C1: once an auth has succeeded in a session, every later well-formed auth
\* in that session with no new challenge in between is answered 403 and
\* returns no M2.
C1_ReplayRejected ==
    [][(out'.op = "auth" /\ out'.status # 400 /\ hist[out'.sid].consumed)
         => (out'.status = 403 /\ out'.M2 = <<>>)]_vars

\* C2: when two register calls for distinct usernames overlapped and both
\* were acknowledged, then once no I/O is pending both records are in the
\* cache and in the snapshot.
C2_NoLostRegistration ==
    Quiescent =>
        \A pr \in pairs : \A u \in pr :
            /\ Loaded /\ u \in DOMAIN Cache
            /\ disk.state = "ok" /\ u \in DOMAIN disk.map

\* C3: a register for a username whose registration had been acknowledged
\* before the call is answered 403, and cache and snapshot still hold the
\* acknowledged salt and verifier.
C3_SecondRegisterConflicts ==
    (out.op = "register" /\ out.status # 400 /\ out.after) =>
        /\ out.status = 403
        /\ \A a \in acked : a.user = out.user =>
              /\ Loaded /\ GetProp(Cache, out.user) = AckedRecord(a)
              /\ disk.state = "ok" /\ GetProp(disk.map, out.user) = AckedRecord(a)

\* C4: a challenge for a non-empty username that never had a record is
\* answered 404 and leaves every session as it was.
C4_UnknownUserNotFound ==
    [][(out'.op = "challenge" /\ out'.status # 400 /\ out'.user \notin stored')
         => (out'.status = 404 /\ session' = session)]_vars

\* C5: a well-formed auth in a session where no challenge ever succeeded is
\* answered 403 (not 401), and step2 is not invoked.
C5_AuthBeforeChallenge ==
    (out.op = "auth" /\ out.status # 400 /\ ~hist[out.sid].challenged) =>
        (out.status = 403 /\ out.status # 401 /\ ~out.step2)
C5_Witness ==
    out.op = "auth" /\ out.status = 403 /\ ~hist[out.sid].challenged

\* The client values of an auth: it was sent for the user of the session's
\* last challenge, with A and M1 computed by client.step2 from that
\* challenge's {salt, B} and password pw.
ComputedFrom(lc, pw, a) ==
    /\ lc.user # Missing /\ out.user = lc.user
    /\ out.A = ClientA(a)
    /\ out.M1 = ClientM1(lc.salt, lc.B, lc.user, pw, a)
RegisteredWith(lc, pw) ==
    [user |-> lc.user, salt |-> lc.salt,
     verifier |-> GenerateVerifier(lc.salt, lc.user, pw)] \in acked

\* C6: after register(u, salt, generateVerifier(salt, u, p)) succeeded, a
\* challenge(u) that returned {salt, B}, followed in the session by auth(u, A,
\* M1) with A and M1 computed from (salt, B, p), returns M2, sets loggedIn,
\* and client.step3 accepts that M2.
C6_RoundTrip ==
    out.op = "auth" /\ out.status # 400 =>
        \A pw \in Passwords, a \in RandA :
            LET lc == hist[out.sid].lastChal
            IN  (ComputedFrom(lc, pw, a) /\ RegisteredWith(lc, pw)) =>
                    /\ out.status = 200
                    /\ session[out.sid].loggedIn = "true"
                    /\ ClientStep3(lc.salt, lc.B, lc.user, pw, a, out.M2)

\* C7: an auth in a session with a pending challenge, whose M1 is not the
\* proof the server recomputes, is answered 401 with no M2, sets loggedIn to
\* false and leaves the user store as it was.
C7_TamperedM1Rejected ==
    [][(/\ out'.op = "auth" /\ out'.status # 400
        /\ PendingChallenge(session[out'.sid])
        /\ \A st \in session[out'.sid].serverSession :
              out'.M1 # HashM1(out'.A, ServerB(st.v, st.b), ServerS(st.v, st.b, out'.A)))
         => (/\ out'.status = 401 /\ out'.M2 = <<>>
             /\ session'[out'.sid].loggedIn = "false"
             /\ users' = users /\ disk' = disk)]_vars
C7_Witness ==
    /\ out.op = "auth" /\ out.status = 401 /\ out.A % N # 0
    /\ session[out.sid].loggedIn = "false"
    /\ Loaded /\ DOMAIN Cache # {}

\* C8: loggedIn is true only when the session's most recent verification
\* passed, and only a verified auth of that session ever turns it to true.
C8_LoggedInOnlyVerified ==
    /\ [](\A s \in Sessions : session[s].loggedIn = "true" => hist[s].lastVerify = "pass")
    /\ [][\A s \in Sessions :
             (session'[s].loggedIn = "true" /\ session[s].loggedIn # "true")
                => (out'.op = "auth" /\ out'.sid = s /\ out'.status = 200)]_vars
C8_Witness ==
    \E s \in Sessions : session[s].loggedIn = "true" /\ out.op = "auth" /\ out.sid = s

\* C9: register answers 204 only in the step that follows the completion of
\* the write it started, never while the write is in flight, and answers
\* 500 when the write failed.
C9_AckAfterWrite ==
    [][out'.op = "register" /\ out'.status \in {204, 500} =>
         \E i \in Slots :
            /\ req[i].op = "register" /\ req[i].user = out'.user /\ req'[i].pc = "idle"
            /\ out'.status = 204 => (req[i].pc = "written" /\ disk.state = "ok")
            /\ req[i].pc = "writeFailed" => out'.status = 500]_vars
C9_Witness ==
    out.op = "register" /\ out.status = 204

\* C10: a lookup of u that starts after register(u) was acknowledged finds
\* the record: challenge does not answer 404, register answers 403.
C10_ReadAfterWrite ==
    (out.op \in {"challenge", "register"} /\ out.status # 400 /\ out.after) =>
        IF out.op = "challenge" THEN out.status = 200 ELSE out.status = 403

\* C11: when getUser's read or parse of the snapshot fails, the cache becomes
\* the empty object and the request goes on: challenge answers 404 and
\* leaves the sessions alone, register is not rejected and calls saveUser on
\* the empty store; no 500 is sent; and once the cache is loaded no request
\* starts another read of the snapshot.
C11_UnreadableIsEmpty ==
    [][/\ \A i \in Slots :
            (req[i].pc = "readFailed" /\ req'[i].pc # "readFailed") =>
                /\ out'.status # 500
                /\ req[i].op = "challenge" =>
                      /\ out'.op = "challenge" /\ out'.status = 404
                      /\ users' = {EmptyMap} /\ session' = session
                /\ req[i].op = "register" =>
                      /\ out'.status # 403 /\ req'[i].pc = "writing"
                      /\ users' = {SetProp(EmptyMap, req[i].user,
                                           Record(req[i].salt, req[i].verifier))}
       /\ Loaded => \A i \in Slots : req'[i].pc = "reading" => req[i].pc = "reading"]_vars
C11_Witness ==
    /\ out.op = "challenge" /\ out.status = 404
    /\ disk.state = "unreadable" /\ Loaded /\ Cache = EmptyMap

\* C12: for every username u and password p, once client.register(u, p) was
\* acknowledged, client.login(u, p) gets M2 from authenticate and step3
\* accepts it (login resolves to true).
C12_ClientRoundTrip ==
    (out.op = "auth" /\ out.status # 400) =>
        \A u \in LoginNames, pw \in Passwords, a \in RandA :
            LET lc == hist[out.sid].lastChal
                ident == EncodeURIComponent(u)
            IN  (/\ lc.user = u /\ out.user = ident
                 /\ out.A = ClientA(a)
                 /\ out.M1 = ClientM1(lc.salt, lc.B, ident, pw, a)
                 /\ RegisteredWith(lc, pw))
                  => /\ out.status = 200
                     /\ ClientStep3(lc.salt, lc.B, ident, pw, a, out.M2)

\* C13: every request gets exactly one response: a request in flight is
\* eventually answered; a handler ends only in a step that sends its
\* response; every response answers one request, either the one that
\* arrived in that step or the one whose handler ended in it; a failed write
\* is answered 500, and a 500 carries no data.
C13_ExactlyOneResponse ==
    /\ \A i \in Slots : (Busy(i) ~> ~Busy(i))
    /\ [][LET ended == {i \in Slots : Busy(i) /\ req'[i].pc = "idle"}
              begun == {i \in Slots : ~Busy(i) /\ req'[i].pc # "idle"}
          IN  /\ \A i \in ended :
                    /\ out'.op = req[i].op /\ out'.status # 0
                    /\ req[i].pc = "writeFailed" => out'.status = 500
              /\ out'.op = "none" => ended = {}
              /\ out'.op # "none" =>
                    \/ count' = count + 1 /\ ended = {} /\ begun = {}
                    \/ count' = count /\ Cardinality(ended) = 1 /\ begun = {}
              /\ count' = count + 1 =>
                    \/ out'.op # "none" /\ begun = {}
                    \/ out'.op = "none" /\ Cardinality(begun) = 1
              /\ out'.status = 500 => (out'.M2 = <<>> /\ out'.B = 0)]_vars
C13_Witness ==
    out.op = "register" /\ out.status = 500 /\ \A i \in Slots : ~Busy(i)

\* C14: a record once in the cache or in the snapshot stays there with the
\* same salt and verifier, and a register is acknowledged with 204 only for
\* a username for which none was acknowledged before.
C14_RecordImmutable ==
    [][/\ \A u \in Names \cup LoginNames :
            /\ (Loaded /\ u \in DOMAIN Cache) =>
                   (Loaded' /\ u \in DOMAIN Cache' /\ Cache'[u] = Cache[u])
            /\ (disk.state = "ok" /\ u \in DOMAIN disk.map) =>
                   (u \in DOMAIN disk'.map /\ disk'.map[u] = disk.map[u])
       /\ (out'.op = "register" /\ out'.status = 204) => ~AckedFor(out'.user)]_vars

\* C15: at most one rewrite of the snapshot is in flight, and once every
\* register call has completed the snapshot equals the cache.
C15_WritesExclusive ==
    /\ Cardinality({i \in Slots : req[i].pc = "writing"}) <= 1
    /\ (Quiescent /\ Loaded /\ acked # {}) => (disk.state = "ok" /\ disk.map = Cache)

\* C16: at most one load of the snapshot is ever under way, and once the
\* cache is loaded none is (the snapshot is read once, the cache is assigned
\* from a load once).
C16_SingleFlightLoad ==
    LET loading == {i \in Slots : req[i].pc \in {"reading", "readDone", "readFailed"}}
    IN  /\ Cardinality(loading) <= 1
        /\ Loaded => loading = {}

\* C17: a request answered 400 changes neither the cache, the snapshot, any
\* session nor any handler in flight; and no request with a wrong method or
\* a missing field is answered otherwise than by 400, whatever the store
\* and the session hold (validation comes before the 403 and 404 checks).
C17_BadRequestNoChange ==
    [][/\ out'.status = 400 =>
            (users' = users /\ disk' = disk /\ session' = session /\ req' = req)
       /\ (count' # count /\ out'.status # 400) =>
            /\ \A i \in Slots, q \in RegisterRequests, salt \in Salts :
                  (q.method # "POST" \/ q.user = Missing \/ q.fields # "all")
                    => ~RegisterStart(i, q.method, q.user, q.fields, salt, q.pw)
            /\ \A i \in Slots, q \in ChallengeRequests :
                  (q.method # "GET" \/ q.user = Missing)
                    => ~ChallengeStart(i, q.sid, q.method, q.user)
            /\ \A q \in AuthRequests, a \in RandA :
                  (q.method # "POST" \/ q.user = Missing \/ q.fields # "all")
                    => ~Auth(q.sid, q.method, q.user, q.fields, q.pw, a, q.tamper)]_vars
C17_Witness ==
    /\ out.op = "register" /\ out.status = 400 /\ out.user = "alice"
    /\ AckedFor("alice") /\ Loaded /\ "alice" \in DOMAIN Cache

\* C18: when the write that register(u) started fails, the request is
\* answered 500 and the cache holds no record for u afterwards.
C18_FailedWriteNoMutation ==
    [][\A i \in Slots :
          (req[i].pc = "writeFailed" /\ req'[i].pc = "idle") =>
              /\ out'.status = 500
              /\ Loaded' /\ req[i].user \notin DOMAIN Cache']_vars

\* An auth whose M1 the client computed from the challenge response that the
\* session's last challenge has overwritten, where the two differ in B.
StaleProof(s) ==
    LET c == hist[s].prevChal
    IN  /\ c.user # Missing /\ c.B # hist[s].lastChal.B
        /\ \E pw \in Passwords, a \in RandA :
              /\ out.A = ClientA(a)
              /\ out.M1 = ClientM1(c.salt, c.B, EncodeURIComponent(c.user), pw, a)

\* C19: a session holds at most one pending state, and it is whole the
\* state of the last challenge that succeeded in the session (its user, its
\* salt, a verifier and b that give its B); an auth whose A and M1 were
\* computed from the B of the overwritten challenge is answered 401.
C19_LastChallengeWins ==
    /\ \A s \in Sessions :
          /\ Cardinality(session[s].serverSession) <= 1
          /\ \A st \in session[s].serverSession :
                /\ st.I = hist[s].lastChal.user
                /\ st.s = hist[s].lastChal.salt
                /\ st.b \in RandB
                /\ ServerB(st.v, st.b) = hist[s].lastChal.B
    /\ (out.op = "auth" /\ out.status # 400 /\ StaleProof(out.sid)) => out.status = 401
C19_Witness ==
    out.op = "auth" /\ out.status = 401 /\ StaleProof(out.sid)

\* C20: a step changes the pending state or the loggedIn flag of a session
\* only if it is a challenge or an auth made in that session, and an auth
\* gets past the pending-challenge check only on a state that a challenge
\* of its own session stored.
C20_SessionIsolation ==
    [][/\ \A t \in Sessions :
            session'[t] # session[t] =>
                (out'.op \in {"challenge", "auth"} /\ out'.sid = t)
       /\ (out'.op = "auth" /\ out'.status \notin {400, 403}) =>
            /\ session[out'.sid].serverSession # {}
            /\ hist[out'.sid].challenged
            /\ \A st \in session[out'.sid].serverSession :
                  st.I = hist[out'.sid].lastChal.user]_vars
C20_Witness ==
    /\ out.op = "auth" /\ out.sid = 1 /\ out.status = 403
    /\ session[2].serverSession # {} /\ session[1] = NoSession

\* C21: an auth answered 401 leaves the session's pending state as it was;
\* and a well-formed auth that follows a 401 in the session with no new
\* challenge in between is verified again against that state: it is not
\* answered 403, and it is answered 200 with M2 when its M1 is the proof of
\* its A against that state.
C21_FailedAuthKeepsChallenge ==
    [][/\ (out'.op = "auth" /\ out'.status = 401) =>
            /\ session[out'.sid].serverSession # {}
            /\ session'[out'.sid].serverSession = session[out'.sid].serverSession
       /\ (out'.op = "auth" /\ out'.status # 400 /\ hist[out'.sid].failed) =>
            /\ out'.status \in {200, 401} /\ out'.step2
            /\ session[out'.sid].serverSession # {}
            /\ \A st \in session[out'.sid].serverSession :
                  /\ st.I = hist[out'.sid].lastChal.user
                  /\ ProofMatches(st, out'.A, out'.M1) =>
                        (out'.status = 200 /\ out'.M2 # <<>>)]_vars
C21_Witness ==
    /\ out.op = "auth" /\ out.status = 200
    /\ hist[out.sid].failed /\ session[out.sid].loggedIn = "true"

\* What auth answers and leaves in the session, as a function of the
\* session and of A and M1 alone.
AuthOutcome(sess, A, M1) ==
    IF sess.serverSession = {}
    THEN [status |-> 403, M2 |-> <<>>, sess |-> sess]
    ELSE LET st == CHOOSE x \in sess.serverSession : TRUE
             S == ServerS(st.v, st.b, A)
         IN  IF ProofMatches(st, A, M1)
             THEN [status |-> 200, M2 |-> HashM2(A, M1, S),
                   sess |-> [sess EXCEPT !.loggedIn = "true"]]
             ELSE [status |-> 401, M2 |-> <<>>,
                   sess |-> [sess EXCEPT !.loggedIn = "false"]]

\* C22: the answer of a well-formed auth (M2, 401 or 403) and the session
\* it leaves are determined by the session's stored challenge state, A and
\* M1, whatever non-empty username the request carries: the username is
\* not compared with the one of the challenge, and a 200 proves the
\* verifier of the challenged user.
C22_UsernameIgnored ==
    [][(out'.op = "auth" /\ out'.status # 400) =>
          LET r == AuthOutcome(session[out'.sid], out'.A, out'.M1)
          IN  /\ out'.user # Missing
              /\ out'.status = r.status /\ out'.M2 = r.M2
              /\ session'[out'.sid] = r.sess
              /\ out'.status = 200 =>
                    \A st \in session[out'.sid].serverSession :
                        st.I = hist[out'.sid].lastChal.user]_vars
C22_Witness ==
    /\ out.op = "auth" /\ out.status = 200
    /\ \E st \in session[out.sid].serverSession : st.I # out.user

\* C23: only an auth that reaches verification changes a session's
\* loggedIn flag; a challenge, whatever it answers, leaves the flag of
\* every session as it was, also when it stores a new pending state in a
\* session whose flag is true.
C23_ChallengeKeepsLoggedIn ==
    [][/\ \A s \in Sessions :
            session'[s].loggedIn # session[s].loggedIn =>
                (out'.op = "auth" /\ out'.sid = s /\ out'.step2)
       /\ out'.op = "challenge" =>
            \A s \in Sessions : session'[s].loggedIn = session[s].loggedIn]_vars
C23_Witness ==
    /\ out.op = "challenge" /\ out.status = 200
    /\ session[out.sid].loggedIn = "true"
    /\ session[out.sid].serverSession # {} /\ ~hist[out.sid].consumed

====
